---------------------------- MODULE Spec2Model ----------------------------
(***************************************************************************)
(* The team-limit plugin of CTFd (src/__init__.py): a before_request hook, *)
(* team_limit_check, that lets a request through (returns None), answers   *)
(* it itself with a JSON body and status 400, or raises.                   *)
(*                                                                         *)
(* Python strings are sequences of one-character strings, so that str(),   *)
(* strip(), isdigit() and int() are computed and not assumed.  Python      *)
(* values of several types (None, str, int, list, dict, a model object)    *)
(* are records tagged by the field t.                                      *)
(***************************************************************************)
EXTENDS Integers, Sequences, FiniteSets, TLC

(***************************************************************************)
(* Bounds of the model.                                                    *)
(***************************************************************************)
\* The Users table holds at most MaxUsers rows that belong to a team.
MaxUsers == 6

(***************************************************************************)
(* Python values.                                                          *)
(***************************************************************************)
NoneV == [t |-> "none"]
StrV(s) == [t |-> "str", s |-> s]
IntV(n) == [t |-> "int", n |-> n]
ListV == [t |-> "list"]
DictV(d) == [t |-> "dict", d |-> d]
\* An ORM object such as a Brackets row: it has a name attribute and a repr.
ObjV(name, repr) == [t |-> "obj", name |-> name, repr |-> repr]
\* An attribute whose access raises inside getattr.
RaisingAttr == [t |-> "raises"]
\* The outcome of an expression that raised instead of returning.
Raised(exc) == [t |-> "raise", exc |-> exc]

DecimalChars == {"0", "1", "2", "3", "4", "5", "6", "7", "8", "9"}
\* U+00B2 SUPERSCRIPT TWO: a digit for str.isdigit(), no literal for int().
SuperscriptTwo == "U+00B2"
DigitChars == DecimalChars \cup {SuperscriptTwo}
Whitespace == {" ", "\t", "\n"}

DigitValue(c) ==
    CASE c = "0" -> 0 [] c = "1" -> 1 [] c = "2" -> 2 [] c = "3" -> 3
      [] c = "4" -> 4 [] c = "5" -> 5 [] c = "6" -> 6 [] c = "7" -> 7
      [] c = "8" -> 8 [] c = "9" -> 9

DigitChar(d) == <<"0", "1", "2", "3", "4", "5", "6", "7", "8", "9">>[d + 1]

\* str.isdigit(): at least one character, and every character a digit.
IsDigit(s) == Len(s) > 0 /\ \A i \in 1..Len(s) : s[i] \in DigitChars

RECURSIVE LStrip(_)
LStrip(s) == IF s # <<>> /\ Head(s) \in Whitespace THEN LStrip(Tail(s)) ELSE s

RECURSIVE RStrip(_)
RStrip(s) ==
    IF s # <<>> /\ s[Len(s)] \in Whitespace
    THEN RStrip(SubSeq(s, 1, Len(s) - 1))
    ELSE s

\* str.strip()
Strip(s) == RStrip(LStrip(s))

RECURSIVE DecimalValue(_)
DecimalValue(s) ==
    IF s = <<>> THEN 0
    ELSE 10 * DecimalValue(SubSeq(s, 1, Len(s) - 1)) + DigitValue(s[Len(s)])

\* int(s) of a str: surrounding whitespace is dropped, one sign is allowed,
\* the rest is decimal digits; anything else is a ValueError.
IntOfStr(s) ==
    LET body == Strip(s)
        signed == body # <<>> /\ Head(body) \in {"+", "-"}
        digits == IF signed THEN Tail(body) ELSE body
    IN  IF digits # <<>> /\ \A i \in 1..Len(digits) : digits[i] \in DecimalChars
        THEN IntV(IF signed /\ Head(body) = "-"
                  THEN 0 - DecimalValue(digits) ELSE DecimalValue(digits))
        ELSE Raised("ValueError")

\* int(v): an int is itself, a str is parsed, a list is a TypeError.
IntOf(v) ==
    CASE v.t = "int" -> v
      [] v.t = "str" -> IntOfStr(v.s)
      [] OTHER -> Raised("TypeError")

RECURSIVE NatDigits(_)
NatDigits(n) ==
    IF n < 10 THEN <<DigitChar(n)>>
    ELSE NatDigits(n \div 10) \o <<DigitChar(n % 10)>>

\* str(v)
Str(v) ==
    CASE v.t = "str" -> v.s
      [] v.t = "int" -> IF v.n < 0 THEN <<"-">> \o NatDigits(0 - v.n)
                        ELSE NatDigits(v.n)
      [] v.t = "obj" -> v.repr
      [] v.t = "none" -> <<"N", "o", "n", "e">>

\* Python truthiness: bool(v)
Truthy(v) ==
    CASE v.t = "none" -> FALSE
      [] v.t = "str" -> v.s # <<>>
      [] v.t = "int" -> v.n # 0
      [] v.t = "dict" -> DOMAIN v.d # {}
      [] OTHER -> TRUE

(***************************************************************************)
(* The limit table, load(), lines 8-13.                                    *)
(***************************************************************************)
PsuLimit == 4

\* The table with Open limited like PSU.
BRACKET_LIMITS_open ==
    (<<"P", "S", "U">> :> IntV(PsuLimit))
    @@ (<<"A", "c", "a", "d", "e", "m", "i", "c">> :> NoneV)
    @@ (<<"O", "p", "e", "n">> :> IntV(PsuLimit))

BRACKET_LIMITS ==
    (<<"P", "S", "U">> :> IntV(PsuLimit))
    @@ (<<"A", "c", "a", "d", "e", "m", "i", "c">> :> NoneV)
    @@ (<<"O", "p", "e", "n">> :> NoneV)

\* dict.get(key): the value, or None for a key the dict does not hold.
DictGet(d, key) == IF key \in DOMAIN d THEN d[key] ELSE NoneV

(***************************************************************************)
(* The Teams table.  A row is a record of the attributes the plugin reads. *)
(***************************************************************************)
Team(id, name, bracket, bracket_id, scoreboard_bracket, scoreboard_bracket_id, extra) ==
    [t |-> "team", id |-> id, name |-> name, bracket |-> bracket, bracket_id |-> bracket_id,
     scoreboard_bracket |-> scoreboard_bracket,
     scoreboard_bracket_id |-> scoreboard_bracket_id, extra |-> extra]

TeamRows ==
    { \* a current CTFd row: the bracket relationship (a Brackets object
      \* named PSU) and its foreign key
      Team(1, <<"r", "e", "d">>,
           ObjV(StrV(<<"P", "S", "U">>), <<"<", "B", "1", ">">>), IntV(1),
           NoneV, NoneV, NoneV),
      \* only the foreign key is set; the extra JSON says PSU
      Team(2, <<"1">>, NoneV, IntV(2), NoneV, NoneV,
           DictV("bracket" :> StrV(<<"P", "S", "U">>))),
      \* no bracket anywhere on the row
      Team(3, <<"9">>, NoneV, IntV(0), StrV(<<>>), NoneV,
           DictV("note" :> StrV(<<"x">>))),
      \* the bracket is kept in the extra JSON, padded with whitespace
      Team(4, <<"b", "l", "u", "e">>, RaisingAttr, NoneV, NoneV, NoneV,
           DictV(("bracket" :> StrV(<<>>))
                 @@ ("bracket_name" :> StrV(<<" ", "P", "S", "U", "\n">>)))),
      \* a legacy row: the bracket name in scoreboard_bracket
      Team(5, <<"4">>, NoneV, NoneV, StrV(<<"O", "p", "e", "n">>), IntV(3),
           NoneV) }

TeamIds == {row.id : row \in TeamRows}

\* Teams.query.filter_by(id=n).first()
TeamsById(n) ==
    IF \E row \in TeamRows : row.id = n
    THEN CHOOSE row \in TeamRows : row.id = n
    ELSE NoneV

\* Teams.query.filter_by(name=s).first(): the matching row of lowest id
TeamsByName(s) ==
    LET rows == {row \in TeamRows : row.name = s}
    IN  IF rows = {} THEN NoneV
        ELSE CHOOSE row \in rows : \A other \in rows : row.id <= other.id

(***************************************************************************)
(* get_team_bracket_from_team_obj, lines 18-48.                            *)
(***************************************************************************)
TeamBracketAttrs ==
    <<"bracket", "bracket_id", "scoreboard_bracket", "scoreboard_bracket_id">>
TeamExtraKeys == <<"bracket", "scoreboard_bracket", "bracket_name">>

\* Lines 39-48: the first truthy of the extra dict's keys, as a str.
RECURSIVE BracketFromExtra(_, _)
BracketFromExtra(extra, i) ==
    IF i > Len(TeamExtraKeys) THEN NoneV
    ELSE IF Truthy(DictGet(extra.d, TeamExtraKeys[i]))
         THEN StrV(Str(DictGet(extra.d, TeamExtraKeys[i])))
         ELSE BracketFromExtra(extra, i + 1)

\* Lines 26-36, from the i-th attribute on, then lines 39-48.
RECURSIVE BracketFromAttrs(_, _)
BracketFromAttrs(team, i) ==
    IF i > Len(TeamBracketAttrs)
    THEN IF team.extra.t = "dict" /\ Truthy(team.extra)
         THEN BracketFromExtra(team.extra, 1)
         ELSE NoneV
    ELSE LET value == team[TeamBracketAttrs[i]]
         IN  IF value.t = "raises" THEN BracketFromAttrs(team, i + 1)
             ELSE IF Truthy(value)
                  THEN LET name == IF value.t = "obj" THEN value.name ELSE NoneV
                       IN  IF Truthy(name) THEN StrV(Str(name))
                           ELSE StrV(Str(value))
                  ELSE BracketFromAttrs(team, i + 1)

get_team_bracket_from_team_obj(team) ==
    IF team = NoneV THEN NoneV ELSE BracketFromAttrs(team, 1)

(***************************************************************************)
(* find_team_by_form, lines 50-79.  The form maps the keys it holds to     *)
(* strings; form.get(key) of a key it does not hold is None.               *)
(***************************************************************************)
FormTeamKeys == <<"team_id", "teamid", "team">>

FormHas(form, key) == key \in DOMAIN form /\ form[key] # <<>>

\* Lines 74-79.
TeamByNameField(form) ==
    IF FormHas(form, "name") THEN TeamsByName(form["name"]) ELSE NoneV

\* Lines 60-71 from the i-th key on, then lines 74-79.
RECURSIVE TeamByKeys(_, _)
TeamByKeys(form, i) ==
    IF i > Len(FormTeamKeys) THEN TeamByNameField(form)
    ELSE IF ~FormHas(form, FormTeamKeys[i]) THEN TeamByKeys(form, i + 1)
    ELSE LET val == form[FormTeamKeys[i]]
             byId == IF IsDigit(val)
                     THEN IF IntOfStr(val).t = "raise" THEN IntOfStr(val)
                          ELSE TeamsById(IntOfStr(val).n)
                     ELSE NoneV
         IN  IF byId # NoneV THEN byId
             ELSE IF TeamsByName(val) # NoneV THEN TeamsByName(val)
             ELSE TeamByKeys(form, i + 1)

find_team_by_form(form) == TeamByKeys(form, 1)

(***************************************************************************)
(* The state: the configuration, the Users table (as the number of rows    *)
(* per team_id, which is all the plugin reads of it), and the requests in  *)
(* flight: each worker is idle, or has run team_limit_check on its request *)
(* and holds the hook's outcome until the view (or the error response)     *)
(* ends the request.                                                       *)
(***************************************************************************)
VARIABLES user_mode, Users, pc, request, hook

vars == <<user_mode, Users, pc, request, hook>>

TEAMS_MODE == "teams"
USERS_MODE == "users"

\* What team_limit_check hands back to Flask.
Pass == [t |-> "pass"]
JsonResponse(status, success) ==
    [t |-> "response", status |-> status, success |-> success]

\* The hook's outcome with the locals it had set when it returned.
Outcome(resp, team, bracket, limit, member_count) ==
    [resp |-> resp, team |-> team, bracket |-> bracket, limit |-> limit,
     member_count |-> member_count]

\* Lines 100-101: `x or {}`
OrEmptyDict(v) == IF Truthy(v) THEN v ELSE DictV([k \in {} |-> NoneV])

\* Lines 136-145: the team of a join request, None, or the exception raised.
ResolveTeam(form, json_payload) ==
    LET team_id == DictGet(json_payload.d, "team_id")
        fromJson == IF Truthy(team_id)
                    THEN IF IntOf(team_id).t = "raise" THEN NoneV
                         ELSE TeamsById(IntOf(team_id).n)
                    ELSE NoneV
    IN  IF fromJson # NoneV THEN fromJson ELSE find_team_by_form(form)

JoinFormBracketKeys == <<"bracket", "bracket_id", "scoreboard_bracket">>

\* Lines 159-164: the first non-empty of the join form's bracket fields.
RECURSIVE BracketFromForm(_, _)
BracketFromForm(form, i) ==
    IF i > Len(JoinFormBracketKeys) THEN NoneV
    ELSE IF FormHas(form, JoinFormBracketKeys[i])
         THEN StrV(form[JoinFormBracketKeys[i]])
         ELSE BracketFromForm(form, i + 1)

\* Lines 155-164 with the join form asked before the team.
ResolveBracket_form_first(team, form) ==
    IF Truthy(BracketFromForm(form, 1))
    THEN BracketFromForm(form, 1)
    ELSE get_team_bracket_from_team_obj(team)

\* Lines 155-164.
ResolveBracket(team, form) ==
    IF Truthy(get_team_bracket_from_team_obj(team))
    THEN get_team_bracket_from_team_obj(team)
    ELSE BracketFromForm(form, 1)

\* Lines 179-183 with the rows filtered by their own id: one row at most.
CountMembers_by_id(id, query_raises) ==
    IF query_raises THEN NoneV ELSE IntV(IF Users[id] > 0 THEN 1 ELSE 0)

\* Lines 179-183: Users.query.filter_by(team_id=id).count(), None when the
\* query raises.
CountMembers(id, query_raises) ==
    IF query_raises THEN NoneV ELSE IntV(Users[id])

\* Line 188 with > for >=.
LimitReached_over(limit, member_count) ==
    limit # NoneV /\ member_count # NoneV /\ member_count.n > limit.n

\* Line 188.
LimitReached(limit, member_count) ==
    limit # NoneV /\ member_count # NoneV /\ member_count.n >= limit.n

\* Lines 134-200 with the limit compared to the count before this join's
\* own member is added to it.
JoinCheck_counts_joiner(form, json_payload, query_raises) ==
    LET team == ResolveTeam(form, json_payload)
        found == ResolveBracket(team, form)
        bracket == StrV(Strip(Str(found)))
        limit == DictGet(BRACKET_LIMITS, bracket.s)
        counted == CountMembers(team.id, query_raises)
        member_count == IF counted = NoneV THEN NoneV ELSE IntV(counted.n + 1)
    IN  IF team.t = "raise" THEN Outcome(team, NoneV, NoneV, NoneV, NoneV)
        ELSE IF team = NoneV THEN Outcome(Pass, NoneV, NoneV, NoneV, NoneV)
        ELSE IF ~Truthy(found) THEN Outcome(Pass, team, found, NoneV, NoneV)
        ELSE IF LimitReached(limit, member_count)
             THEN Outcome(JsonResponse(400, FALSE), team, bracket, limit,
                          counted)
             ELSE Outcome(Pass, team, bracket, limit, counted)

\* Lines 134-200.
JoinCheck(form, json_payload, query_raises) ==
    LET team == ResolveTeam(form, json_payload)
        found == ResolveBracket(team, form)
        bracket == StrV(Strip(Str(found)))
        limit == DictGet(BRACKET_LIMITS, bracket.s)
        member_count == CountMembers(team.id, query_raises)
    IN  IF team.t = "raise" THEN Outcome(team, NoneV, NoneV, NoneV, NoneV)
        ELSE IF team = NoneV THEN Outcome(Pass, NoneV, NoneV, NoneV, NoneV)
        ELSE IF ~Truthy(found) THEN Outcome(Pass, team, found, NoneV, NoneV)
        ELSE IF LimitReached(limit, member_count)
             THEN Outcome(JsonResponse(400, FALSE), team, bracket, limit,
                          member_count)
             ELSE Outcome(Pass, team, bracket, limit, member_count)

Skipped == Outcome(Pass, NoneV, NoneV, NoneV, NoneV)

\* Lines 100-203: the hook once the mode and the endpoint are in scope.
ScopedCheck(req, query_raises) ==
    LET form == req.form
        json_payload == OrEmptyDict(req.json)
    IN  \* line 102: json_payload.keys() of a JSON body that is no object
        IF json_payload.t # "dict"
        THEN Outcome(Raised("AttributeError"), NoneV, NoneV, NoneV, NoneV)
        ELSE IF req.endpoint = "teams.new" /\ req.method = "POST" THEN Skipped
        ELSE IF req.endpoint \in {"teams.join", "api_teams_join"}
                /\ req.method \in {"POST", "PUT"}
             THEN JoinCheck(form, json_payload, query_raises)
        ELSE Skipped

\* An email-suffix policy: the user's address must end in @psu.edu.
EmailSuffix == <<"@", "p", "s", "u", ".", "e", "d", "u">>

EndsWith(s, suffix) ==
    Len(s) >= Len(suffix)
    /\ SubSeq(s, Len(s) - Len(suffix) + 1, Len(s)) = suffix

ViolatesEmailPolicy(user) ==
    user # NoneV /\ ~EndsWith(user.email, EmailSuffix)

\* A hook that also turns away the users whose address violates the policy.
team_limit_check_email(req, query_raises) ==
    IF user_mode # TEAMS_MODE THEN Skipped
    ELSE IF req.endpoint \notin {"teams.new", "teams.join", "api_teams_join"}
         THEN Skipped
    ELSE IF ViolatesEmailPolicy(req.user)
         THEN Outcome(JsonResponse(400, FALSE), NoneV, NoneV, NoneV, NoneV)
    ELSE ScopedCheck(req, query_raises)

\* Lines 82-203.
team_limit_check(req, query_raises) ==
    IF user_mode # TEAMS_MODE THEN Skipped
    ELSE IF req.endpoint \notin {"teams.new", "teams.join", "api_teams_join"}
         THEN Skipped
    ELSE ScopedCheck(req, query_raises)

(***************************************************************************)
(* The requests the workers are given.  A request is what the hook reads   *)
(* of flask.request and of the session: the endpoint the URL was routed to *)
(* ("none" when routing failed), the method, the form, the value           *)
(* request.get_json(silent=True) returns and the current user.             *)
(***************************************************************************)
Req(endpoint, method, form, json, user) ==
    [endpoint |-> endpoint, method |-> method, form |-> form, json |-> json,
     user |-> user]

UserV(name, email) == [t |-> "user", name |-> name, email |-> email]
\* lines 104-105: the hook reads the user's name, for its log line
Alice == UserV("alice", <<"a", "@", "p", "s", "u", ".", "e", "d", "u">>)
Bob == UserV("bob", <<"b", "@", "x", ".", "o", "r", "g">>)

NoForm == [k \in {} |-> <<>>]
JsonTeamId(v) == "team_id" :> v

\* Join forms that name the team in one field.
TeamForms ==
    { "team_id" :> <<"1">>,
      "team_id" :> <<"2">>,
      "team_id" :> <<"3">>,
      "team_id" :> <<"5">>,
      "team_id" :> <<"9">>,
      "team_id" :> <<"7">>,
      "team_id" :> <<SuperscriptTwo>>,
      "team_id" :> <<" ", "1">>,
      "team" :> <<"b", "l", "u", "e">>,
      "name" :> <<"r", "e", "d">>,
      "name" :> <<"4">>,
      "name" :> <<"z">> }

\* Join forms that name it in several.
MixedForms ==
    { ("team_id" :> <<>>) @@ ("teamid" :> <<"4">>) @@ ("name" :> <<"r", "e", "d">>),
      ("team_id" :> <<"7">>) @@ ("teamid" :> <<"r", "e", "d">>)
          @@ ("team" :> <<"b", "l", "u", "e">>) @@ ("name" :> <<"9">>),
      ("team_id" :> <<"z">>) @@ ("team" :> <<"5">>) @@ ("name" :> <<"1">>),
      ("teamid" :> <<"z">>) @@ ("name" :> <<"1">>),
      ("team" :> <<SuperscriptTwo>>) @@ ("name" :> <<"r", "e", "d">>) }

\* Bracket fields a form may carry besides.
BracketFields ==
    { NoForm,
      "bracket" :> <<"P", "S", "U">>,
      "bracket" :> <<"p", "s", "u">>,
      "bracket" :> <<"O", "p", "e", "n">>,
      ("bracket" :> <<>>) @@ ("bracket_id" :> <<" ", "P", "S", "U", " ">>),
      ("bracket_id" :> <<"1">>) @@ ("scoreboard_bracket" :> <<"P", "S", "U">>),
      "scoreboard_bracket" :> <<"A", "c", "a", "d", "e", "m", "i", "c">>,
      "scoreboard_bracket" :> <<" ">>,
      "scoreboard_bracket_id" :> <<"P", "S", "U">> }

JsonBodies ==
    { JsonTeamId(IntV(1)),
      JsonTeamId(IntV(4)),
      JsonTeamId(IntV(0)),
      JsonTeamId(IntV(8)),
      JsonTeamId(StrV(<<" ", "4", " ">>)),
      JsonTeamId(StrV(<<"r", "e", "d">>)),
      JsonTeamId(ListV),
      ("team_id" :> IntV(3)) @@ ("bracket" :> StrV(<<"P", "S", "U">>)),
      "name" :> StrV(<<"r", "e", "d">>) }

\* What get_json returns: None (no JSON body), an object, or another JSON
\* value such as a list.
JsonValues == {DictV(d) : d \in JsonBodies} \cup {ListV}

\* A body is a form or JSON, by its content type: a request with form
\* fields has no JSON, and a request with JSON has an empty form.
JoinRequests ==
    {Req("teams.join", "POST", f, NoneV, Alice) : f \in TeamForms \cup MixedForms}
    \cup {Req("teams.join", "POST", ("team_id" :> id) @@ b, NoneV, Bob) :
            id \in {<<"1">>, <<"3">>}, b \in BracketFields}
    \cup {Req("api_teams_join", "POST", NoForm, j, Bob) : j \in JsonValues}
    \cup {Req("api_teams_join", "PUT", NoForm, j, Alice) :
            j \in {DictV(JsonTeamId(IntV(1))), DictV(JsonTeamId(IntV(8))), ListV}}
    \cup {Req("teams.join", "PUT", "team" :> <<"b", "l", "u", "e">>, NoneV, NoneV)}

NewRequests ==
    {Req("teams.new", "POST", ("name" :> <<"n", "e", "w">>) @@ b, NoneV, u) :
        b \in BracketFields, u \in {Alice, Bob}}
    \cup {Req("teams.new", "POST", NoForm, j, Bob) :
            j \in {ListV, DictV(JsonTeamId(IntV(1)))}}

OtherRequests ==
    {Req(e, m, "team_id" :> <<"1">>, NoneV, Bob) :
        e \in {"teams.join", "api_teams_join", "teams.new"},
        m \in {"GET", "DELETE"}}
    \cup {Req(e, m, NoForm, ListV, Alice) :
        e \in {"teams.join", "api_teams_join", "teams.new"},
        m \in {"GET", "DELETE"}}
    \cup {Req(e, "POST", "team_id" :> <<"1">>, NoneV, Bob) :
            e \in {"teams.list", "auth.login", "none"}}
    \cup {Req(e, "POST", NoForm, j, Bob) :
            e \in {"teams.list", "auth.login", "none"},
            j \in {ListV, DictV(JsonTeamId(IntV(1)))}}

Requests == JoinRequests \cup NewRequests \cup OtherRequests

Workers == {1, 2}

NoMembers == [id \in TeamIds |-> 0]

Idle == [t |-> "idle"]

TypeOK ==
    /\ user_mode \in {TEAMS_MODE, USERS_MODE}
    /\ Users \in [TeamIds -> 0..MaxUsers]
    /\ pc \in [Workers -> {"idle", "checked"}]
    /\ \A p \in Workers : pc[p] = "idle" <=> request[p] = Idle
    /\ \A p \in Workers : pc[p] = "idle" <=> hook[p] = Idle
    /\ \A p \in Workers :
          pc[p] = "checked" =>
              request[p].form = NoForm \/ request[p].json = NoneV

Init ==
    /\ user_mode \in {TEAMS_MODE, USERS_MODE}
    \* nobody has joined yet, or the plugin is loaded on a running CTF whose
    \* team 1 has grown past the limit already
    /\ Users \in {NoMembers, [NoMembers EXCEPT ![1] = 5]}
    /\ pc = [p \in Workers |-> "idle"]
    /\ request = [p \in Workers |-> Idle]
    /\ hook = [p \in Workers |-> Idle]

RECURSIVE Sum(_, _)
Sum(f, S) ==
    IF S = {} THEN 0
    ELSE LET x == CHOOSE x \in S : TRUE IN f[x] + Sum(f, S \ {x})

\* A worker takes a request and Flask runs the before_request hook on it.
BeforeRequest(p, req, query_raises) ==
    /\ pc[p] = "idle"
    /\ pc' = [pc EXCEPT ![p] = "checked"]
    /\ request' = [request EXCEPT ![p] = req]
    /\ hook' = [hook EXCEPT ![p] = team_limit_check(req, query_raises)]
    /\ UNCHANGED <<user_mode, Users>>

\* The hook returned None and CTFd's join view adds the user to the team.
JoinView(p) ==
    /\ pc[p] = "checked"
    /\ hook[p].resp = Pass
    /\ hook[p].team # NoneV
    /\ Sum(Users, TeamIds) < MaxUsers
    /\ Users' = [Users EXCEPT ![hook[p].team.id] = @ + 1]
    /\ pc' = [pc EXCEPT ![p] = "idle"]
    /\ request' = [request EXCEPT ![p] = Idle]
    /\ hook' = [hook EXCEPT ![p] = Idle]
    /\ UNCHANGED user_mode

\* The request ends with no change to the tables: the hook's own response
\* or its exception is sent, or the view adds nobody.
EndRequest(p) ==
    /\ pc[p] = "checked"
    /\ pc' = [pc EXCEPT ![p] = "idle"]
    /\ request' = [request EXCEPT ![p] = Idle]
    /\ hook' = [hook EXCEPT ![p] = Idle]
    /\ UNCHANGED <<user_mode, Users>>

\* One request at a time: the hook and the view of a request run with no
\* other request between them.
Next ==
    \/ \E req \in Requests, query_raises \in BOOLEAN :
          BeforeRequest(1, req, query_raises)
    \/ JoinView(1)
    \/ EndRequest(1)

Spec == Init /\ [][Next]_vars

\* Two workers whose requests interleave freely.
ConcRequests ==
    {Req("teams.join", "POST", "name" :> n, NoneV, Alice) :
        n \in {<<"r", "e", "d">>, <<"b", "l", "u", "e">>}}
    \cup {Req("api_teams_join", "POST", NoForm, DictV(JsonTeamId(IntV(1))), Bob)}

ConcInit ==
    /\ user_mode = TEAMS_MODE
    /\ Users \in {NoMembers, [NoMembers EXCEPT ![1] = 3]}
    /\ pc = [p \in Workers |-> "idle"]
    /\ request = [p \in Workers |-> Idle]
    /\ hook = [p \in Workers |-> Idle]

\* The database answers every query here, so that what the workers do to
\* each other is not mixed with what a failing query does.
ConcNext ==
    \E p \in Workers :
        \/ \E req \in ConcRequests : BeforeRequest(p, req, FALSE)
        \/ JoinView(p)
        \/ EndRequest(p)

ConcSpec == ConcInit /\ [][ConcNext]_vars

(***************************************************************************)
(* Vocabulary of the properties.                                           *)
(***************************************************************************)
PSU == <<"P", "S", "U">>
JoinEndpoints == {"teams.join", "api_teams_join"}

\* Worker p has run the hook on its request and the request is not over.
Checked(p) == pc[p] = "checked"

\* The request is a join the hook looks at: a join endpoint, POST or PUT.
IsJoin(req) == req.endpoint \in JoinEndpoints /\ req.method \in {"POST", "PUT"}

\* The hook of worker p was run in teams mode on a join and found its team.
JoinResolved(p) ==
    Checked(p) /\ user_mode = TEAMS_MODE /\ IsJoin(request[p])
    /\ hook[p].team # NoneV

\* The hook of worker p got as far as the count query, and the query raised.
QueryRaised(p) == hook[p].bracket # NoneV /\ hook[p].member_count = NoneV

Rejected400 == JsonResponse(400, FALSE)

\* The teams whose own bracket is PSU once normalized.
PsuTeamIds ==
    {row.id : row \in {r \in TeamRows :
        /\ Truthy(get_team_bracket_from_team_obj(r))
        /\ Strip(Str(get_team_bracket_from_team_obj(r))) = PSU}}

(***************************************************************************)
(* C1.  In teams mode, a POST or PUT to a join endpoint whose team is      *)
(* resolved, whose normalized bracket is a key of the limit table with a   *)
(* limit L that is not None, and whose member count c was obtained, is     *)
(* answered with status 400 and success false when c >= L and is let       *)
(* through when c < L; c is the number of Users rows of the team; for the  *)
(* bracket PSU, L = 4.                                                     *)
(***************************************************************************)
C1_LimitDecision ==
    \A p \in Workers :
        (/\ JoinResolved(p)
         /\ hook[p].bracket # NoneV
         /\ hook[p].bracket.s \in DOMAIN BRACKET_LIMITS
         /\ BRACKET_LIMITS[hook[p].bracket.s] # NoneV
         /\ hook[p].member_count # NoneV)
        => LET L == BRACKET_LIMITS[hook[p].bracket.s].n
               c == hook[p].member_count.n
           IN  /\ c = Users[hook[p].team.id]
               /\ c >= L => hook[p].resp = Rejected400
               /\ c < L => hook[p].resp = Pass
               /\ hook[p].bracket.s = PSU => L = 4

\* A join to team 1 (PSU) holding exactly 4 members has been answered 400.
C1_Witness ==
    /\ JoinResolved(1)
    /\ hook[1].team.id = 1
    /\ hook[1].bracket = StrV(PSU)
    /\ hook[1].member_count = IntV(4)
    /\ hook[1].resp = Rejected400

(***************************************************************************)
(* C5.  A join to a team whose normalized bracket has the limit None       *)
(* (Academic, Open) or is no key of the table (any name but PSU: psu, 2)   *)
(* is let through whatever the member count.                               *)
(***************************************************************************)
C5_UnlimitedBrackets ==
    \A p \in Workers :
        (/\ JoinResolved(p)
         /\ hook[p].bracket # NoneV
         /\ hook[p].bracket.s # PSU)
        => hook[p].resp = Pass

\* A join to team 5 (Open) holding 6 members has been let through.
C5_Witness ==
    /\ JoinResolved(1)
    /\ hook[1].bracket = StrV(<<"O", "p", "e", "n">>)
    /\ hook[1].member_count # NoneV
    /\ hook[1].member_count.n >= 6
    /\ hook[1].resp = Pass

(***************************************************************************)
(* C2.  Team creation, the other operation the policy would apply to.      *)
(***************************************************************************)
IsCreate(req) == req.endpoint = "teams.new" /\ req.method = "POST"

(***************************************************************************)
(* C2 as stated: a team-creation or team-join request from a user whose    *)
(* email violates the email-suffix policy is not let through by the hook.  *)
(***************************************************************************)
C2_EmailPolicyEnforced ==
    \A p \in Workers :
        (/\ Checked(p)
         /\ user_mode = TEAMS_MODE
         /\ IsCreate(request[p]) \/ IsJoin(request[p])
         /\ ViolatesEmailPolicy(request[p].user))
        => hook[p].resp # Pass

(***************************************************************************)
(* C2 as amended: the hook applies no email policy.  Its outcome for a     *)
(* request is the outcome for the same request from any other user or from *)
(* nobody, and the only rejection it issues is the 400 of a join whose     *)
(* member count has reached the bracket's limit, so a team-creation        *)
(* request is never rejected for the user's address.                       *)
(***************************************************************************)
C2_NoEmailPolicy ==
    \A p \in Workers :
        Checked(p) =>
            /\ \A u \in {NoneV, Alice, Bob} :
                  team_limit_check([request[p] EXCEPT !.user = u],
                                   QueryRaised(p)) = hook[p]
            /\ hook[p].resp.t = "response" =>
                  /\ IsJoin(request[p])
                  /\ hook[p].resp = Rejected400
                  /\ hook[p].member_count # NoneV
                  /\ hook[p].member_count.n >= 4

\* Bob, whose address is not a psu.edu one, asks to join team 1 (PSU), which
\* has room, and is let through.
C2_Witness ==
    /\ JoinResolved(1)
    /\ ViolatesEmailPolicy(request[1].user)
    /\ hook[1].team.id = 1
    /\ hook[1].member_count = IntV(2)
    /\ hook[1].resp = Pass

(***************************************************************************)
(* C3 as stated: the hook returns nothing for every request when the mode  *)
(* is not teams mode, for every endpoint other than teams.new, teams.join  *)
(* and api_teams_join, and for every request to a join endpoint whose      *)
(* method is neither POST nor PUT, whatever the payload.                   *)
(***************************************************************************)
C3_OutOfScopePasses ==
    \A p \in Workers :
        (/\ Checked(p)
         /\ \/ user_mode # TEAMS_MODE
            \/ request[p].endpoint
                  \notin {"teams.new", "teams.join", "api_teams_join"}
            \/ /\ request[p].endpoint \in JoinEndpoints
               /\ request[p].method \notin {"POST", "PUT"})
        => hook[p].resp = Pass

\* The part of C3 that the code keeps: the mode and the endpoint decide
\* before anything of the request is read, and a join endpoint asked with
\* another method passes unless its JSON body is not an object.
C3_ScopeBeforePayload ==
    \A p \in Workers :
        Checked(p) =>
            /\ (\/ user_mode # TEAMS_MODE
                \/ request[p].endpoint
                      \notin {"teams.new", "teams.join", "api_teams_join"})
               => hook[p].resp = Pass
            /\ (/\ request[p].endpoint \in JoinEndpoints
                /\ request[p].method \notin {"POST", "PUT"}
                /\ hook[p].resp # Pass)
               => /\ hook[p].resp = Raised("AttributeError")
                  /\ request[p].json = ListV

(***************************************************************************)
(* C4 as stated: a team-creation request (teams.new, POST) is always let   *)
(* through by the hook, whatever the form's bracket and the tables.        *)
(***************************************************************************)
C4_CreationAllowed ==
    \A p \in Workers :
        (Checked(p) /\ IsCreate(request[p])) => hook[p].resp = Pass

\* The part of C4 that the code keeps: the hook never answers a creation
\* request itself, and lets it through unless its JSON body is not an object.
C4_CreationNeverAnswered ==
    \A p \in Workers :
        (Checked(p) /\ IsCreate(request[p])) =>
            \/ hook[p].resp = Pass
            \/ /\ hook[p].resp = Raised("AttributeError")
               /\ request[p].json = ListV

(***************************************************************************)
(* C6.  The order of the lookups as the property words it.  A lookup is by *)
(* id or by name; AllDecimal is "an all-digit value".                      *)
(***************************************************************************)
ById(n) == [by |-> "id", id |-> n, name |-> <<>>]
ByName(s) == [by |-> "name", id |-> 0, name |-> s]

AllDecimal(s) == s # <<>> /\ \A i \in 1..Len(s) : s[i] \in DecimalChars

KeyLookups(form, key) ==
    IF ~FormHas(form, key) THEN <<>>
    ELSE (IF AllDecimal(form[key])
          THEN <<ById(DecimalValue(form[key]))>> ELSE <<>>)
         \o <<ByName(form[key])>>

FormLookups(form) ==
    KeyLookups(form, "team_id") \o KeyLookups(form, "teamid")
    \o KeyLookups(form, "team")
    \o (IF FormHas(form, "name") THEN <<ByName(form["name"])>> ELSE <<>>)

JsonLookups(json_payload) ==
    IF "team_id" \in DOMAIN json_payload.d
       /\ IntOf(json_payload.d["team_id"]).t = "int"
    THEN <<ById(IntOf(json_payload.d["team_id"]).n)>>
    ELSE <<>>

Found(lookup) ==
    IF lookup.by = "id" THEN TeamsById(lookup.id) ELSE TeamsByName(lookup.name)

FirstFound(lookups) ==
    LET hits == {i \in 1..Len(lookups) : Found(lookups[i]) # NoneV}
    IN  IF hits = {} THEN NoneV
        ELSE Found(lookups[CHOOSE i \in hits : \A j \in hits : i <= j])

ExpectedTeam(form, json_payload) ==
    FirstFound(JsonLookups(json_payload) \o FormLookups(form))

\* Worker p's hook went into the join branch, lines 134-200.
JoinReached(p) ==
    /\ Checked(p) /\ user_mode = TEAMS_MODE /\ IsJoin(request[p])
    /\ OrEmptyDict(request[p].json).t = "dict"

(***************************************************************************)
(* C6 as stated: the team of a join request is the first found of: the     *)
(* JSON team_id as an id; for the form keys team_id, teamid, team in that  *)
(* order, an all-digit value as an id and then any value as a name; the    *)
(* form's name as a name; and no team when none is found.  No lookup       *)
(* raises.                                                                 *)
(***************************************************************************)
C6_ResolutionOrder ==
    \A p \in Workers :
        JoinReached(p) =>
            ResolveTeam(request[p].form, OrEmptyDict(request[p].json))
                = ExpectedTeam(request[p].form, OrEmptyDict(request[p].json))

\* The part of C6 that the code keeps: the order is the stated one whenever
\* the resolution returns, and it raises only on a form value that
\* str.isdigit() accepts and int() does not.
C6_OrderUnlessRaised ==
    \A p \in Workers :
        JoinReached(p) =>
            LET form == request[p].form
                got == ResolveTeam(form, OrEmptyDict(request[p].json))
            IN  \/ got = ExpectedTeam(form, OrEmptyDict(request[p].json))
                \/ /\ got = Raised("ValueError")
                   /\ hook[p].resp = got
                   /\ \E key \in DOMAIN form :
                         IsDigit(form[key]) /\ ~AllDecimal(form[key])

(***************************************************************************)
(* C7 as stated: a join request is let through, and nothing is raised,     *)
(* whenever the hook gets no team from the request, whenever it gets a     *)
(* team and no bracket, and whenever the count query raises, even when the *)
(* team is at or above its limit.                                          *)
(***************************************************************************)
C7_FailsOpen ==
    \A p \in Workers :
        (/\ Checked(p) /\ user_mode = TEAMS_MODE /\ IsJoin(request[p])
         /\ \/ hook[p].team = NoneV
            \/ hook[p].bracket = NoneV
            \/ QueryRaised(p))
        => hook[p].resp = Pass

\* The part of C7 that the code keeps: with a team and no bracket, and with
\* a count query that raised, the request is let through; without a team it
\* is let through unless the hook itself raised.
C7_FailsOpenUnlessRaised ==
    \A p \in Workers :
        (Checked(p) /\ user_mode = TEAMS_MODE /\ IsJoin(request[p])) =>
            /\ (hook[p].team # NoneV /\ hook[p].bracket = NoneV)
               => hook[p].resp = Pass
            /\ QueryRaised(p) => hook[p].resp = Pass
            /\ hook[p].team = NoneV
               => hook[p].resp \in {Pass, Raised("ValueError"),
                                    Raised("AttributeError")}

\* A join to team 1 (PSU), which is over its limit, is let through because
\* the count query raised.
C7_CountRaisedWhenFull ==
    /\ JoinResolved(1)
    /\ hook[1].team.id = 1
    /\ Users[1] >= 4
    /\ QueryRaised(1)
    /\ hook[1].resp = Pass

(***************************************************************************)
(* C8.  The source of the bracket as the property words it.                *)
(***************************************************************************)
FirstOf(S) == CHOOSE i \in S : \A j \in S : i <= j

TruthyAttrs(team) ==
    {i \in 1..Len(TeamBracketAttrs) :
        /\ team[TeamBracketAttrs[i]].t # "raises"
        /\ Truthy(team[TeamBracketAttrs[i]])}

TruthyExtras(team) ==
    IF team.extra.t # "dict" THEN {}
    ELSE {i \in 1..Len(TeamExtraKeys) :
            /\ TeamExtraKeys[i] \in DOMAIN team.extra.d
            /\ Truthy(team.extra.d[TeamExtraKeys[i]])}

FilledFormFields(form) ==
    {i \in 1..Len(JoinFormBracketKeys) : FormHas(form, JoinFormBracketKeys[i])}

HasOwnBracket(team) == TruthyAttrs(team) # {} \/ TruthyExtras(team) # {}

ExpectedBracket(team, form) ==
    IF TruthyAttrs(team) # {}
    THEN LET value == team[TeamBracketAttrs[FirstOf(TruthyAttrs(team))]]
         IN  IF value.t = "obj" /\ Truthy(value.name)
             THEN StrV(Str(value.name)) ELSE StrV(Str(value))
    ELSE IF TruthyExtras(team) # {}
    THEN StrV(Str(team.extra.d[TeamExtraKeys[FirstOf(TruthyExtras(team))]]))
    ELSE IF FilledFormFields(form) # {}
    THEN StrV(form[JoinFormBracketKeys[FirstOf(FilledFormFields(form))]])
    ELSE NoneV

AllBracketKeys ==
    {"bracket", "bracket_id", "scoreboard_bracket", "scoreboard_bracket_id"}

\* The form with its bracket fields replaced by those of `fields`.
WithBracketFields(form, fields) ==
    fields @@ [k \in DOMAIN form \ AllBracketKeys |-> form[k]]

(***************************************************************************)
(* C8.  The bracket of the limit check is the first truthy of the team's   *)
(* attributes bracket, bracket_id, scoreboard_bracket,                     *)
(* scoreboard_bracket_id (its name if it has one, else its str), then of   *)
(* the extra dict's keys bracket, scoreboard_bracket, bracket_name, and    *)
(* the join form's bracket, bracket_id, scoreboard_bracket only when the   *)
(* team has none.  So, for a team with a bracket of its own, a join        *)
(* request gets the same outcome whatever bracket fields its form carries. *)
(***************************************************************************)
C8_BracketFromTeamFirst ==
    \A p \in Workers :
        JoinResolved(p) =>
            LET team == hook[p].team
                form == request[p].form
                expected == ExpectedBracket(team, form)
            IN  /\ ResolveBracket(team, form) = expected
                /\ hook[p].bracket =
                      IF expected = NoneV THEN NoneV
                      ELSE StrV(Strip(expected.s))
                /\ (HasOwnBracket(team) /\ request[p].json = NoneV) =>
                      \A fields \in BracketFields :
                          team_limit_check(
                              [request[p] EXCEPT
                                  !.form = WithBracketFields(form, fields)],
                              QueryRaised(p)) = hook[p]

\* A join to team 1 (PSU, full) whose form says bracket=Open is answered 400.
C8_Witness ==
    /\ JoinResolved(1)
    /\ hook[1].team.id = 1
    /\ FormHas(request[1].form, "bracket")
    /\ request[1].form["bracket"] = <<"O", "p", "e", "n">>
    /\ hook[1].bracket = StrV(PSU)
    /\ hook[1].resp = Rejected400

(***************************************************************************)
(* C9 as stated: with one request at a time, a PSU team that has at most 4 *)
(* members never gets more than 4, and every join to it while it has 4 or  *)
(* more is answered 400.                                                   *)
(***************************************************************************)
FullTeamJoinRejected ==
    \A p \in Workers :
        (/\ JoinResolved(p)
         /\ hook[p].team.id \in PsuTeamIds
         /\ Users[hook[p].team.id] >= 4)
        => hook[p].resp = Rejected400

FullTeamJoinRejectedWhenCounted ==
    \A p \in Workers :
        (/\ JoinResolved(p)
         /\ hook[p].team.id \in PsuTeamIds
         /\ ~QueryRaised(p)
         /\ Users[hook[p].team.id] >= 4)
        => hook[p].resp = Rejected400

C10_BothAllowed ==
    \A id \in PsuTeamIds :
        (\A p \in Workers :
            /\ JoinResolved(p)
            /\ hook[p].team.id = id
            /\ hook[p].member_count = IntV(3))
        => \A p \in Workers : hook[p].resp = Pass

\* Team 1 started with 3 members, no query failed, and a later join to it
\* counts 5 members.
C10_Witness ==
    /\ Users[1] = 5
    /\ \E p \in Workers :
          /\ JoinResolved(p)
          /\ hook[p].team.id = 1
          /\ hook[p].member_count = IntV(5)
          /\ hook[p].resp = Rejected400
=============================================================================
